---- MODULE Spec2Model ----
(***************************************************************************)
(* Model of the report-intake bots of tg-report-bot.                       *)
(*                                                                         *)
(*   - the HTTP polling bot (telegram_api_bot.py): the module-level        *)
(*     session table user_states, the report table, and the handlers       *)
(*     process_command / process_callback_query / cmd_* /                  *)
(*     process_description, each translated statement by statement;        *)
(*   - the synchronous runner (telegram_bot_runner.py): user_states,       *)
(*     user_data and process_update with its handlers.                     *)
(*                                                                         *)
(* A handler is a function from a "world" to a world.  A world is the      *)
(* record                                                                  *)
(*   us     user_states of the HTTP polling bot                            *)
(*   rs, rd user_states and user_data of the synchronous runner            *)
(*   db     the rows of the report table                                   *)
(*   sent   the outbound requests made so far by this handler, in order    *)
(*   net    the outcomes of the network requests still to be made          *)
(*   dbok   whether an INSERT made by this handler succeeds                *)
(*   save   "none" | "ok" | "failed": what save_report did                 *)
(*   ret    the return value of the call just made                         *)
(*   raised whether an exception has left the handler                      *)
(* so that a Python statement sequence reads as a LET chain.  A chat_id is  *)
(* written as the string requests puts on the wire: Str(chat_id) for  *)
(* an integer id, the string itself for a channel id or a command token.   *)
(***************************************************************************)
EXTENDS Integers, Sequences, FiniteSets, TLC

VARIABLES
    user_states,    \* telegram_api_bot.user_states: user_id -> dict
    reports,        \* rows of table report in instance/telegram_bot.db
    runner_states,  \* telegram_bot_runner.TelegramBot.user_states: user_id -> state
    runner_data,    \* telegram_bot_runner.TelegramBot.user_data: user_id -> dict
    ev,             \* the update handled by the last step, as a 0/1-element sequence
    entry,          \* the function the last step called with ev
    sent,           \* the outbound requests made while handling ev
    save,           \* what save_report did while handling ev
    raised,         \* whether handling ev raised out of the handler
    flow,           \* per user: how far the update sequence (start-report,
                    \* category selection, description) has got
    completed,      \* the updates process_description has been run on
    offset,         \* telegram_api_bot.TelegramBot.offset
    last_update_id, \* telegram_bot_runner.TelegramBot.last_update_id
    telegram,       \* the updates the Bot API holds, update_id = position, and
                    \* the highest update_id a getUpdates call has confirmed
    batch,          \* what is left of the list the for loop of run() iterates
    pc,             \* which bot runs, where its run() is, the error since the
                    \* last successful fetch
    handed,         \* the update_ids run() of telegram_api_bot passed to
                    \* processing, in order
    host            \* the web application (app.py):
                    \*   app       "off" | "serving"
                    \*   token     whether TELEGRAM_BOT_TOKEN was set at startup
                    \*   warned    whether start_bot logged its warning
                    \*   process   whether start_bot started the bot process
                    \*   admin_id  session['admin_id'] of the browser, 0 for none
                    \*   loaded    the update request between its SELECT and
                    \*             its commit, as a 0/1-element sequence
                    \*   seen      the number of rows that request found
                    \*   response  the last response, as a 0/1-element sequence

vars == <<user_states, reports, runner_states, runner_data, ev, entry, sent, save,
          raised, flow, completed, offset, last_update_id, telegram, batch, pc, handed,
          host>>

\* the state of the polling loops
driver == <<offset, last_update_id, telegram, batch, pc, handed>>

----------------------------------------------------------------------------
(* Program constants *)

CHANNEL_ID == "-1002544234044"
RESPONSE_CHANNEL_ID == "-1002326727802"
CATEGORIES == <<"Discord Items", "Premiums">>
STATE_IDLE == 0
STATE_AWAITING_CATEGORY == 1
STATE_AWAITING_DESCRIPTION == 2

----------------------------------------------------------------------------
(* Python dictionaries *)

EmptyDict == <<>>

\* d.get(k, default)
Get(d, k, default) == IF k \in DOMAIN d THEN d[k] ELSE default

\* d[k] = v
Put(d, k, v) == [x \in (DOMAIN d) \cup {k} |-> IF x = k THEN v ELSE d[x]]

\* del d[k]
Del(d, k) == [x \in (DOMAIN d) \ {k} |-> d[x]]

\* x in list
InList(x, list) == \E i \in 1..Len(list) : list[i] = x

----------------------------------------------------------------------------
(* The strings of the model.  TLC interns every string it builds, so the    *)
(* string functions are computed once, over these strings, and looked up.  *)

UserTexts == {"/start", "report", "Refund", "/cancel", "hello"}

AdminTexts == {"/respond 2 hi  there ", "/respond 2", "/respond",
               "/debug_channel -1002544234044", "/debug_channel"}

Texts == UserTexts \cup AdminTexts

Captions == {"hello"}

PhotoCaptions == {"/respond 2 hi  there ", "/respond 2", "hello"}

ButtonData == {"Discord Items", "Premiums", "Other"}

Strings == Texts \cup Captions \cup PhotoCaptions \cup {""}

CommandPrefixes == {"/start", "/report", "/refund", "/respond", "/debug_channel"}

IsSpace(c) == c = " "

Rest(s) == SubSeq(s, 2, Len(s))

HasPrefix(s, p) == Len(s) >= Len(p) /\ SubSeq(s, 1, Len(p)) = p

UpperAlpha == "ABCDEFGHIJKLMNOPQRSTUVWXYZ"
LowerAlpha == "abcdefghijklmnopqrstuvwxyz"

LowerChar(c) ==
    IF \E i \in 1..Len(UpperAlpha) : SubSeq(UpperAlpha, i, i) = c
    THEN LET i == CHOOSE j \in 1..Len(UpperAlpha) : SubSeq(UpperAlpha, j, j) = c
         IN SubSeq(LowerAlpha, i, i)
    ELSE c

RECURSIVE LowerString(_)
LowerString(s) == IF s = "" THEN "" ELSE LowerChar(SubSeq(s, 1, 1)) \o LowerString(Rest(s))

\* s.lstrip()
RECURSIVE LStrip(_)
LStrip(s) == IF s # "" /\ IsSpace(SubSeq(s, 1, 1)) THEN LStrip(Rest(s)) ELSE s

\* length of the run of non-whitespace characters s begins with
RECURSIVE WordLen(_)
WordLen(s) == IF s = "" \/ IsSpace(SubSeq(s, 1, 1)) THEN 0 ELSE 1 + WordLen(Rest(s))

RECURSIVE SplitString(_, _)
SplitString(s, maxsplit) ==
    LET t == LStrip(s) IN
    IF t = "" THEN <<>>
    ELSE IF maxsplit = 0 THEN <<t>>
    ELSE LET n == WordLen(t)
         IN <<SubSeq(t, 1, n)>> \o SplitString(SubSeq(t, n + 1, Len(t)), maxsplit - 1)

\* the identities of the model, and 0 for an absent id
Ids == 0..2

StrOf == [i \in Ids |-> ToString(i)]
SyntheticNameOf == [i \in Ids |-> "user_" \o ToString(i)]

\* str(chat_id), as requests writes it into the form data
Str(i) == StrOf[i]

PrefixesOf == [s \in Strings |-> {p \in CommandPrefixes : HasPrefix(s, p)}]
LowerOf == [s \in Strings |-> LowerString(s)]
SplitOf == [s \in Strings |-> [maxsplit \in {-1, 2} |-> SplitString(s, maxsplit)]]

\* s.startswith(p)
StartsWith(s, p) == p \in PrefixesOf[s]

\* s.lower()
Lower(s) == LowerOf[s]

\* s.split(maxsplit=n); n = -1 is s.split()
Split(s, maxsplit) == SplitOf[s][maxsplit]

----------------------------------------------------------------------------
(* Outbound requests (telegram_api_bot.py).  The text of a message is the  *)
(* record of its template and of the values interpolated into it; the      *)
(* wall-clock timestamp of the channel templates is left out.              *)

\* the response of the request just made is truthy
Ok(w) == w.ret = TRUE

Request(w, method, chat_id, text) ==
    [w EXCEPT !.sent = Append(@, [method |-> method, chat_id |-> chat_id,
                                  text |-> text, ok |-> Head(w.net)]),
              !.net = Tail(@),
              !.ret = Head(w.net)]

send_message(w, chat_id, text) == Request(w, "sendMessage", chat_id, text)

send_photo_to_channel(w, channel_id, file_id, caption) ==
    Request(w, "sendPhoto", channel_id, [photo |-> file_id, caption |-> caption])

send_to_channel(w, text) == send_message(w, CHANNEL_ID, text)

answer_callback_query(w, callback_query_id) ==
    Request(w, "answerCallbackQuery", "", [callback_query_id |-> callback_query_id])

----------------------------------------------------------------------------
(* The report table *)

NewRow_FirstId(db, user_id, username, category, description) ==
    [id |-> 1, user_id |-> user_id, username |-> username,
     category |-> category, description |-> description, status |-> "Pending"]

\* the row of an INSERT: id INTEGER PRIMARY KEY is the largest id plus one,
\* status takes its default
NewRow(db, user_id, username, category, description) ==
    [id |-> Len(db) + 1, user_id |-> user_id, username |-> username,
     category |-> category, description |-> description, status |-> "Pending"]

\* returns the new row id, or None (0) when the INSERT fails
save_report(w, user_id, username, category, description) ==
    IF w.dbok
    THEN [w EXCEPT !.db = Append(@, NewRow(w.db, user_id, username, category, description)),
                   !.save = "ok",
                   !.ret = Len(w.db) + 1]
    ELSE [w EXCEPT !.save = "failed", !.ret = 0]

----------------------------------------------------------------------------
(* Handlers of telegram_api_bot.TelegramBot *)

SetSession_Everyone(w, user_id, session) ==
    [w EXCEPT !.us = [x \in (DOMAIN @) \cup {user_id} |-> session]]

\* user_states[user_id] = session
SetSession(w, user_id, session) == [w EXCEPT !.us = Put(@, user_id, session)]

\* user_states.get(user_id, {}).get("message_data", None) followed by
\* "if message_data: user_states[user_id]['message_data'] = message_data"
KeepMessageData(w, user_id, session) ==
    LET message_data == Get(Get(w.us, user_id, EmptyDict), "message_data", EmptyDict)
    IN IF message_data # EmptyDict
       THEN Put(session, "message_data", message_data)
       ELSE session

cmd_start(w, chat_id, user_id, message) ==
    LET w1 == SetSession(w, user_id, [state |-> STATE_IDLE, message_data |-> message])
    IN send_message(w1, Str(chat_id),
           [template |-> "welcome",
            username |-> Get(Get(message, "from", EmptyDict), "username", "user")])

RestartSession_KeepsDraft(w, user_id) ==
    Put(Get(w.us, user_id, EmptyDict), "state", STATE_AWAITING_CATEGORY)

\* the dict cmd_report stores: the state, and the message_data of the old dict
RestartSession(w, user_id) ==
    KeepMessageData(w, user_id, [state |-> STATE_AWAITING_CATEGORY])

cmd_report(w, chat_id, user_id) ==
    LET session == RestartSession(w, user_id)
        w1 == SetSession(w, user_id, session)
    IN send_message(w1, Str(chat_id),
           [template |-> "category_prompt", inline_keyboard |-> CATEGORIES])

process_category(w, chat_id, user_id, category) ==
    IF category = "Discord Items"
    THEN send_message(w, Str(chat_id), [template |-> "discord_form"])
    ELSE IF category = "Premiums"
    THEN send_message(w, Str(chat_id), [template |-> "premium_form"])
    ELSE w

cmd_refund(w, chat_id, user_id) ==
    LET session == KeepMessageData(w, user_id,
                       [category |-> "Refund", state |-> STATE_AWAITING_DESCRIPTION])
        w1 == SetSession(w, user_id, session)
    IN send_message(w1, Str(chat_id), [template |-> "refund_form"])

FinishDescription_EmptyDict(w, user_id) == SetSession(w, user_id, EmptyDict)

\* user_states[user_id] = {"state": STATE_IDLE}, the last statement
FinishDescription(w, user_id) == SetSession(w, user_id, [state |-> STATE_IDLE])

Saved_NotChecked(report_id) == TRUE

\* "if report_id:"
Saved(report_id) == report_id # 0

Confirm_IgnoringRelay(w, chat_id, report_id) ==
    send_message(w, Str(chat_id), [template |-> "success", report_id |-> report_id])

\* the message to the submitter after the relay, which left its response in w
Confirm(w, chat_id, report_id) ==
    IF Ok(w)
    THEN send_message(w, Str(chat_id), [template |-> "success", report_id |-> report_id])
    ELSE send_message(w, Str(chat_id), [template |-> "forward_failed"])

LostTrack_KeepsSession(w, chat_id, user_id) ==
    send_message(w, Str(chat_id), [template |-> "lost_track"])

\* the branch of process_description for a session without a category
LostTrack(w, chat_id, user_id) ==
    SetSession(send_message(w, Str(chat_id), [template |-> "lost_track"]),
               user_id, [state |-> STATE_IDLE])

process_description(w, chat_id, user_id, description) ==
    IF user_id \notin DOMAIN w.us \/ "category" \notin DOMAIN w.us[user_id]
    THEN LostTrack(w, chat_id, user_id)
    ELSE
    LET category == w.us[user_id].category
        user_data == Get(Get(w.us[user_id], "message_data", EmptyDict), "from", EmptyDict)
        username == Get(user_data, "username", SyntheticNameOf[user_id])
        w1 == save_report(w, user_id, username, category, description)
        report_id == w1.ret
        channel_msg ==
            [template |-> IF category = "Refund" THEN "refund_request" ELSE "category_report",
             category |-> category, report_id |-> report_id, user_id |-> user_id,
             username |-> username, description |-> description]
        w2 == send_to_channel(w1, channel_msg)
        w3 == IF Saved(report_id)
              THEN Confirm(w2, chat_id, report_id)
              ELSE send_message(w1, Str(chat_id), [template |-> "save_failed"])
    IN FinishDescription(w3, user_id)

ResponseParts_SplitAll(text) == Split(text, -1)

\* text.split(maxsplit=2)
ResponseParts(text) == Split(text, 2)

RejectRespond_ThenAudit(w, chat_id) ==
    send_message(send_message(w, Str(chat_id), [template |-> "respond_usage"]),
                 RESPONSE_CHANNEL_ID, [template |-> "respond_usage"])

\* the usage reply of the text branch, after which cmd_respond returns
RejectRespond(w, chat_id) == send_message(w, Str(chat_id), [template |-> "respond_usage"])

cmd_respond(w, chat_id, user_id, text, update) ==
    IF "message" \in DOMAIN update /\ "photo" \in DOMAIN update.message
    THEN \* photo response
         LET caption == Get(update.message, "caption", "")
             parts == ResponseParts(caption)
         IN IF caption = "" \/ ~StartsWith(caption, "/respond")
            THEN send_message(w, Str(chat_id), [template |-> "photo_usage"])
            ELSE IF Len(parts) < 3
            THEN send_message(w, Str(chat_id), [template |-> "photo_usage"])
            ELSE
            LET target_user_id == parts[2]
                response_text == parts[3]
                photos == update.message.photo
                failed(v) == send_message(v, Str(chat_id), [template |-> "photo_failed"])
            IN IF photos = <<>>
               THEN failed(w)          \* IndexError, caught by the inner try
               ELSE
               LET photo == photos[Len(photos)].file_id
                   w1 == send_photo_to_channel(w, target_user_id, photo,
                             [template |-> "admin_response_user",
                              response_text |-> response_text])
                   w2 == send_photo_to_channel(w1, RESPONSE_CHANNEL_ID, photo,
                             [template |-> "admin_response_channel",
                              target_user_id |-> target_user_id,
                              response_text |-> response_text])
               IN IF ~Ok(w1) THEN failed(w1)
                  ELSE IF ~Ok(w2) THEN failed(w2)
                  ELSE send_message(w2, Str(chat_id), [template |-> "photo_ok"])
    ELSE \* regular text response
         LET parts == ResponseParts(text)
         IN IF Len(parts) < 3
            THEN RejectRespond(w, chat_id)
            ELSE
            LET target_user_id == parts[2]
                response_text == parts[3]
                w1 == send_message(w, target_user_id,
                          [template |-> "admin_response_user",
                           response_text |-> response_text])
                w2 == send_message(w1, RESPONSE_CHANNEL_ID,
                          [template |-> "admin_response_channel",
                           target_user_id |-> target_user_id,
                           response_text |-> response_text])
            IN send_message(w2, Str(chat_id), [template |-> "respond_ok"])

cmd_debug_channel(w, chat_id, user_id, text) ==
    LET parts == Split(text, -1)
        w1 == send_message(w, Str(chat_id),
                  [template |-> "debug_info", chat_id |-> chat_id, user_id |-> user_id])
    IN IF Len(parts) > 1
       THEN LET new_channel_id == parts[2]
                w2 == send_message(w1, new_channel_id,
                          [template |-> "debug_test", user_id |-> user_id])
            IN IF Ok(w2)
               THEN send_message(w2, Str(chat_id),
                        [template |-> "debug_ok", channel_id |-> new_channel_id])
               ELSE send_message(w2, Str(chat_id),
                        [template |-> "debug_failed", channel_id |-> new_channel_id])
       ELSE w1

\* JSON null
None == [None |-> TRUE]

\* an exception leaves the handler
Raise(w) == [w EXCEPT !.raised = TRUE]

\* user_states[user_id]["state"] raises KeyError on a session without "state"
NoStateKey(w, user_id) == user_id \in DOMAIN w.us /\ "state" \notin DOMAIN w.us[user_id]

InState(w, user_id, state) ==
    /\ user_id \in DOMAIN w.us
    /\ "state" \in DOMAIN w.us[user_id]
    /\ w.us[user_id].state = state

AcceptsDescription_InAnyFlow(w, user_id) ==
    /\ user_id \in DOMAIN w.us
    /\ w.us[user_id].state # STATE_IDLE

\* the condition of the last elif of process_command
AcceptsDescription(w, user_id) == InState(w, user_id, STATE_AWAITING_DESCRIPTION)

AcceptsPhoto_Never(w, user_id, photo) == FALSE

\* "photo and user_id in user_states and user_states[user_id]["state"] ==
\* STATE_AWAITING_DESCRIPTION"
AcceptsPhoto(w, user_id, photo) ==
    photo # <<>> /\ InState(w, user_id, STATE_AWAITING_DESCRIPTION)

IsReportCommand_SlashOnly(text) == StartsWith(text, "/report")

\* text.startswith("/report") or text.lower() == "report"
IsReportCommand(text) == StartsWith(text, "/report") \/ Lower(text) = "report"

process_command(w, update) ==
    LET message == Get(update, "message", EmptyDict)
        chat == Get(message, "chat", EmptyDict)
        chat_id == Get(chat, "id", 0)
        user_id == Get(Get(message, "from", EmptyDict), "id", 0)
        text == Get(message, "text", "")
        photo == Get(message, "photo", <<>>)
        caption == Get(message, "caption", "")
    IN IF chat = None THEN Raise(w)     \* None.get("id"): AttributeError
       ELSE IF chat_id = 0 THEN w
       ELSE IF photo # <<>> /\ NoStateKey(w, user_id) THEN Raise(w)
       ELSE IF AcceptsPhoto(w, user_id, photo)
       THEN LET file_id == photo[Len(photo)].file_id
                w1 == process_description(w, chat_id, user_id, caption)
            IN send_photo_to_channel(w1, CHANNEL_ID, file_id, caption)
       ELSE IF text = "" THEN w
       ELSE IF StartsWith(text, "/start") THEN cmd_start(w, chat_id, user_id, message)
       ELSE IF IsReportCommand(text)
       THEN cmd_report(w, chat_id, user_id)
       ELSE IF StartsWith(text, "/refund") \/ Lower(text) = "refund"
       THEN cmd_refund(w, chat_id, user_id)
       ELSE IF StartsWith(text, "/respond")
       THEN cmd_respond(w, chat_id, user_id, text, update)
       ELSE IF StartsWith(text, "/debug_channel")
       THEN cmd_debug_channel(w, chat_id, user_id, text)
       ELSE IF NoStateKey(w, user_id) THEN Raise(w)
       ELSE IF AcceptsDescription(w, user_id)
       THEN process_description(w, chat_id, user_id, text)
       ELSE w

SelectedSession_NoCategory(data) == [state |-> STATE_AWAITING_DESCRIPTION]

SelectedSession_FirstCategory(data) ==
    [category |-> CATEGORIES[1], state |-> STATE_AWAITING_DESCRIPTION]

\* the dict process_callback_query stores for a configured category
SelectedSession(data) == [category |-> data, state |-> STATE_AWAITING_DESCRIPTION]

AcceptsCategory_WithSession(w, user_id) == user_id \in DOMAIN w.us

\* user_id in user_states and user_states[user_id]["state"] == STATE_AWAITING_CATEGORY
AcceptsCategory(w, user_id) == InState(w, user_id, STATE_AWAITING_CATEGORY)

IsCategory_Any(data) == TRUE

\* data in CATEGORIES
IsCategory(data) == InList(data, CATEGORIES)

process_callback_query(w, update) ==
    LET callback_query == Get(update, "callback_query", EmptyDict)
        chat_id == Get(Get(Get(callback_query, "message", EmptyDict), "chat", EmptyDict), "id", 0)
        user_id == Get(Get(callback_query, "from", EmptyDict), "id", 0)
        data == Get(callback_query, "data", "")
        callback_id == Get(callback_query, "id", "")
    IN IF chat_id = 0 \/ data = "" \/ user_id = 0 THEN w
       ELSE
       LET w1 == answer_callback_query(w, callback_id)
       IN IF NoStateKey(w1, user_id) THEN Raise(w1)
          ELSE IF AcceptsCategory(w1, user_id) /\ IsCategory(data)
          THEN LET session == KeepMessageData(w1, user_id, SelectedSession(data))
               IN process_category(SetSession(w1, user_id, session), chat_id, user_id, data)
          ELSE w1

\* the body of the for loop of run()
route_update(w, update) ==
    IF "message" \in DOMAIN update THEN process_command(w, update)
    ELSE IF "callback_query" \in DOMAIN update THEN process_callback_query(w, update)
    ELSE w

----------------------------------------------------------------------------
(* The inbound updates the model draws from *)

Users == {1, 2}

\* the "from" object of a user's updates: user 1 has a handle, user 2 has none
From(u) == IF u = 1 THEN [id |-> 1, username |-> "alice", first_name |-> "Alice"]
                    ELSE [id |-> u, first_name |-> "Bob"]

\* s.rstrip()
RECURSIVE RStrip(_)
RStrip(s) ==
    IF s # "" /\ IsSpace(SubSeq(s, Len(s), Len(s)))
    THEN RStrip(SubSeq(s, 1, Len(s) - 1))
    ELSE s

\* f"{user.first_name} {user.last_name or ''}".strip(), for the users of the model
DisplayNameOf ==
    [u \in Users |->
        LStrip(RStrip(From(u).first_name \o " " \o Get(From(u), "last_name", "")))]

TextMessage(u, text) ==
    [message |-> [chat |-> [id |-> u], from |-> From(u), text |-> text]]

PhotoMessage(u) ==
    [message |-> [chat |-> [id |-> u], from |-> From(u),
                  photo |-> <<[file_id |-> "small"], [file_id |-> "large"]>>]]

CaptionedPhotoMessage(u, caption) ==
    [message |-> [chat |-> [id |-> u], from |-> From(u), caption |-> caption,
                  photo |-> <<[file_id |-> "small"], [file_id |-> "large"]>>]]

CallbackQuery(u, data) ==
    [callback_query |-> [id |-> "cb", from |-> From(u),
                         message |-> [chat |-> [id |-> u]], data |-> data]]

\* the updates of the conversation: commands, free text, attachments, buttons
ConversationUpdates(u) ==
    {TextMessage(u, t) : t \in UserTexts}
    \cup {PhotoMessage(u)}
    \cup {CaptionedPhotoMessage(u, c) : c \in Captions}
    \cup {CallbackQuery(u, d) : d \in ButtonData}

Updates == ConversationUpdates(1)

\* the number of rows the report table may reach
MaxReports == 1

\* no handler makes more than three requests
NetOutcomes == [1..3 -> BOOLEAN]

StartWorld(net, dbok) ==
    [us |-> user_states, rs |-> runner_states, rd |-> runner_data, db |-> reports,
     sent |-> <<>>, net |-> net, dbok |-> dbok, save |-> "none", ret |-> FALSE,
     raised |-> FALSE]

AllOk == [i \in 1..3 |-> TRUE]

\* what a handler run leaves behind
Outcome(w) == [us |-> w.us, rs |-> w.rs, rd |-> w.rd, db |-> w.db, sent |-> w.sent,
               save |-> w.save, raised |-> w.raised]

\* every outcome of running handler Run(world) in the current state.  A run
\* that makes no request and no INSERT when everything succeeds never consults
\* the outcomes, so it has that one outcome.
Outcomes(Run(_)) ==
    LET w0 == Run(StartWorld(AllOk, TRUE))
    IN IF w0.sent = <<>> /\ w0.save = "none"
       THEN {Outcome(w0)}
       ELSE {Outcome(Run(StartWorld(net, dbok))) : net \in NetOutcomes, dbok \in BOOLEAN}

----------------------------------------------------------------------------
(* Handlers of telegram_bot_runner.TelegramBot.  A request of the            *)
(* python-telegram-bot client raises when it fails, and the exception      *)
(* leaves process_update: the statements after it are not executed.        *)

categories == <<"Delivery Issue", "Product Quality", "Wrong Item", "Damaged Package",
                "Payment Issue", "Missing Parts", "Other">>
STATE_INIT == 0
STATE_CATEGORY == 1
STATE_DESCRIPTION == 2

effective_user(update) ==
    IF "message" \in DOMAIN update THEN update.message.from
    ELSE update.callback_query.from

effective_chat(update) ==
    IF "message" \in DOMAIN update THEN update.message.chat
    ELSE update.callback_query.message.chat

\* self.bot.send_message(...) / self.bot.answer_callback_query(...)
bot_request(w, method, chat_id, text) ==
    IF w.raised THEN w
    ELSE LET w1 == Request(w, method, chat_id, text)
         IN IF Ok(w1) THEN w1 ELSE Raise(w1)

\* self.user_states[user_id] = state, the statement after a handler call
SetState(w, user_id, state) ==
    IF w.raised THEN w ELSE [w EXCEPT !.rs = Put(@, user_id, state)]

runner_save_report(w, user_id, username, category, description) ==
    IF w.dbok
    THEN [w EXCEPT !.db = Append(@, NewRow(w.db, user_id, username, category, description)),
                   !.save = "ok",
                   !.ret = Len(w.db) + 1]
    ELSE [w EXCEPT !.save = "failed", !.ret = 0]

runner_cmd_start(w, update) ==
    bot_request(w, "sendMessage", Str(effective_chat(update).id),
        [template |-> "hello", first_name |-> effective_user(update).first_name])

cmd_help(w, update) ==
    bot_request(w, "sendMessage", Str(effective_chat(update).id), [template |-> "help"])

runner_cmd_report(w, update) ==
    bot_request(w, "sendMessage", Str(effective_chat(update).id),
        [template |-> "select_category", inline_keyboard |-> categories])

cmd_cancel(w, update) ==
    LET user_id == effective_user(update).id
        w1 == IF user_id \in DOMAIN w.rd THEN [w EXCEPT !.rd = Del(@, user_id)] ELSE w
    IN bot_request(w1, "sendMessage", Str(effective_chat(update).id),
           [template |-> "cancelled"])

runner_process_category(w, update) ==
    LET user_id == effective_user(update).id
        category == update.callback_query.data
        data == Put(Get(w.rd, user_id, EmptyDict), "category", category)
        w1 == [w EXCEPT !.rd = Put(@, user_id, data)]
        w2 == bot_request(w1, "answerCallbackQuery", "",
                  [callback_query_id |-> update.callback_query.id])
    IN bot_request(w2, "sendMessage", Str(effective_chat(update).id),
           [template |-> "describe", category |-> category])


runner_process_description(w, update) ==
    LET user_id == effective_user(update).id
        user == effective_user(update)
        description == update.message.text
    IN IF user_id \notin DOMAIN w.rd \/ "category" \notin DOMAIN w.rd[user_id]
       THEN bot_request(w, "sendMessage", Str(effective_chat(update).id),
                [template |-> "lost_track"])
       ELSE
       LET category == w.rd[user_id].category
           username == Get(user, "username", DisplayNameOf[user_id])
           w1 == runner_save_report(w, user.id, username, category, description)
           w2 == bot_request(w1, "sendMessage", Str(effective_chat(update).id),
                     [template |-> "submitted", report_id |-> w1.ret,
                      category |-> category])
       IN IF w2.raised THEN w2 ELSE [w2 EXCEPT !.rd = Del(@, user_id)]

process_update(w, update) ==
    IF "message" \in DOMAIN update /\ Get(update.message, "text", "") # ""
    THEN LET user_id == effective_user(update).id
             text == update.message.text
         IN IF text = "/start"
            THEN SetState(runner_cmd_start(w, update), user_id, STATE_INIT)
            ELSE IF text = "/help"
            THEN SetState(cmd_help(w, update), user_id, STATE_INIT)
            ELSE IF text = "/report"
            THEN SetState(runner_cmd_report(w, update), user_id, STATE_CATEGORY)
            ELSE IF text = "/cancel"
            THEN SetState(cmd_cancel(w, update), user_id, STATE_INIT)
            ELSE IF user_id \in DOMAIN w.rs /\ w.rs[user_id] = STATE_DESCRIPTION
            THEN SetState(runner_process_description(w, update), user_id, STATE_INIT)
            ELSE w
    ELSE IF "callback_query" \in DOMAIN update
    THEN LET user_id == effective_user(update).id
         IN IF user_id \in DOMAIN w.rs /\ w.rs[user_id] = STATE_CATEGORY
            THEN SetState(runner_process_category(w, update), user_id, STATE_DESCRIPTION)
            ELSE w
    ELSE w

----------------------------------------------------------------------------
(* The HTTP polling bot handling one update *)

\* app.py is not imported yet
NoHost == [app |-> "off", token |-> FALSE, warned |-> FALSE, process |-> FALSE,
           admin_id |-> 0, loaded |-> <<>>, seen |-> 0, response |-> <<>>]

NoFlow == [stage |-> 0, base |-> 0, category |-> "", description |-> "", log |-> <<>>]

Init ==
    /\ user_states = EmptyDict
    /\ reports = <<>>
    /\ runner_states = EmptyDict
    /\ runner_data = EmptyDict
    /\ ev = <<>>
    /\ entry = ""
    /\ sent = <<>>
    /\ save = "none"
    /\ raised = FALSE
    /\ flow = [u \in Users |-> NoFlow]
    /\ completed = {}
    /\ offset = 0
    /\ last_update_id = 0
    /\ telegram = [updates |-> <<>>, confirmed |-> 0]
    /\ batch = <<>>
    /\ pc = [bot |-> "", at |-> "off", err |-> "none"]
    /\ handed = <<>>
    /\ host = NoHost

\* one update goes through handler Run; the report table holds at most cap rows
Handle(Run(_), name, update, cap) ==
    \E o \in Outcomes(Run) :
        /\ Len(o.db) <= cap
        /\ user_states' = o.us
        /\ runner_states' = o.rs
        /\ runner_data' = o.rd
        /\ reports' = o.db
        /\ ev' = <<update>>
        /\ entry' = name
        /\ sent' = o.sent
        /\ save' = o.save
        /\ raised' = o.raised

\* one iteration of the for loop of TelegramBot.run
Deliver(update) ==
    LET Run(w) == route_update(w, update)
    IN /\ Handle(Run, "run", update, MaxReports)
       /\ UNCHANGED <<flow, completed, driver, host>>

Next == \E update \in Updates : Deliver(update)

Spec == Init /\ [][Next]_vars

----------------------------------------------------------------------------
(* Vocabulary of the properties *)

\* the session process_description leaves behind
IdleSession == [state |-> STATE_IDLE]

StateOf(us, u) == Get(Get(us, u, IdleSession), "state", -1)

\* a user without a session is in the initial state, Idle
Idle(us, u) == StateOf(us, u) = STATE_IDLE
AwaitingCategory(us, u) == StateOf(us, u) = STATE_AWAITING_CATEGORY
AwaitingDescription(us, u) == StateOf(us, u) = STATE_AWAITING_DESCRIPTION

\* every session has a state, and a category when a description is awaited
WellFormed(us) ==
    \A u \in DOMAIN us :
        /\ DOMAIN us[u] \subseteq {"state", "category", "message_data"}
        /\ "state" \in DOMAIN us[u]
        /\ us[u].state \in {STATE_IDLE, STATE_AWAITING_CATEGORY, STATE_AWAITING_DESCRIPTION}
        /\ us[u].state = STATE_AWAITING_DESCRIPTION => "category" \in DOMAIN us[u]

\* texts no branch of process_command recognizes as a command
FreeTexts == {"hello", "/cancel"}

Template(request) ==
    IF "template" \in DOMAIN request.text THEN request.text.template ELSE ""

\* the last step ran the loop body of run() on update
Handled(update) == ev = <<update>> /\ entry = "run"

Sender(update) ==
    IF "message" \in DOMAIN update THEN update.message.from.id
    ELSE update.callback_query.from.id

\* the description a message carries: its text, or the caption of its photo
DescriptionOf(update) ==
    IF "text" \in DOMAIN update.message THEN update.message.text
    ELSE Get(update.message, "caption", "")

\* the report text went to the report channel / and the request failed
Relayed(requests) ==
    \E i \in 1..Len(requests) :
        requests[i].method = "sendMessage" /\ requests[i].chat_id = CHANNEL_ID
RelayFailed(requests) ==
    \E i \in 1..Len(requests) :
        /\ requests[i].method = "sendMessage" /\ requests[i].chat_id = CHANNEL_ID
        /\ ~requests[i].ok

\* the chat chat_id was sent a message of this template
Told(requests, chat_id, template) ==
    \E i \in 1..Len(requests) :
        /\ requests[i].method = "sendMessage" /\ requests[i].chat_id = Str(chat_id)
        /\ Template(requests[i]) = template

----------------------------------------------------------------------------
(* The report flow of two users, specification SpecFlow.  flow and          *)
(* completed observe the updates; the handlers never read them.            *)

FlowUpdates(u) ==
    {TextMessage(u, "report"), TextMessage(u, "hello")}
    \cup {CallbackQuery(u, CATEGORIES[i]) : i \in 1..Len(CATEGORIES)}

\* the number of rows the report table may reach in SpecFlow
FlowMaxReports == 2

RowsOf(u, db) == {i \in 1..Len(db) : db[i].user_id = u}

\* the stage of u's flow after update: 1 after the start-report command found
\* the session fresh or Idle, 2 after the selection of a configured category,
\* 3 after a description text whose INSERT succeeded, 0 otherwise
FlowStep(f, u, update) ==
    IF update = TextMessage(u, "report") /\ Idle(user_states, u)
    THEN [NoFlow EXCEPT !.stage = 1, !.base = Cardinality(RowsOf(u, reports))]
    ELSE IF f.stage = 1 /\ "callback_query" \in DOMAIN update
            /\ InList(update.callback_query.data, CATEGORIES)
    THEN [f EXCEPT !.stage = 2, !.category = update.callback_query.data]
    ELSE IF f.stage = 2 /\ update = TextMessage(u, "hello") /\ save' = "ok"
    THEN [f EXCEPT !.stage = 3, !.description = "hello"]
    ELSE NoFlow

DeliverFlow(u, update) ==
    LET Run(w) == route_update(w, update)
    IN /\ Handle(Run, "run", update, FlowMaxReports)
       /\ flow' = [flow EXCEPT ![u] = FlowStep(flow[u], u, update)]
       /\ completed' =
              IF update = TextMessage(u, "hello") /\ AwaitingDescription(user_states, u)
              THEN completed \cup {update}
              ELSE completed
       /\ UNCHANGED <<driver, host>>

NextFlow == \E u \in Users : \E update \in FlowUpdates(u) : DeliverFlow(u, update)

SpecFlow == Init /\ [][NextFlow]_vars

----------------------------------------------------------------------------
(* The scenario /start, report, category, description of one user,         *)
(* specification SpecScenario.  flow[u].log keeps, of every request made    *)
(* since /start, the method, the chat and the template.                    *)

ScenarioUpdates(u) ==
    {TextMessage(u, t) : t \in {"/start", "report", "hello"}}
    \cup {CallbackQuery(u, CATEGORIES[i]) : i \in 1..Len(CATEGORIES)}

\* the number of rows the report table may reach in SpecScenario
ScenarioMaxReports == 1

Logged(requests) ==
    [i \in 1..Len(requests) |->
        [method |-> requests[i].method, chat_id |-> requests[i].chat_id,
         template |-> Template(requests[i])]]

\* the stage of u's scenario after update: 1 after /start, 2 after the report
\* command, 3 after the selection of a configured category, 4 after a
\* description text whose INSERT and relay succeeded, 0 otherwise
ScenarioStep(f, u, update) ==
    IF update = TextMessage(u, "/start")
    THEN [NoFlow EXCEPT !.stage = 1, !.base = Cardinality(RowsOf(u, reports)),
                        !.log = Logged(sent')]
    ELSE IF f.stage = 1 /\ update = TextMessage(u, "report")
    THEN [f EXCEPT !.stage = 2, !.log = @ \o Logged(sent')]
    ELSE IF f.stage = 2 /\ "callback_query" \in DOMAIN update
            /\ InList(update.callback_query.data, CATEGORIES)
    THEN [f EXCEPT !.stage = 3, !.category = update.callback_query.data,
                   !.log = @ \o Logged(sent')]
    ELSE IF f.stage = 3 /\ update = TextMessage(u, "hello")
            /\ save' = "ok" /\ Relayed(sent') /\ ~RelayFailed(sent')
    THEN [f EXCEPT !.stage = 4, !.description = "hello", !.log = @ \o Logged(sent')]
    ELSE NoFlow

DeliverScenario(u, update) ==
    LET Run(w) == route_update(w, update)
    IN /\ Handle(Run, "run", update, ScenarioMaxReports)
       /\ flow' = [flow EXCEPT ![u] = ScenarioStep(flow[u], u, update)]
       /\ UNCHANGED <<completed, driver, host>>

NextScenario == \E update \in ScenarioUpdates(1) : DeliverScenario(1, update)

SpecScenario == Init /\ [][NextScenario]_vars

----------------------------------------------------------------------------
(* Conversations that open with /start, specification SpecSnapshot: a user  *)
(* sends nothing before their /start.  completed observes the /start        *)
(* updates handled; the handlers never read it.                            *)

SnapshotUpdates(u) ==
    {TextMessage(u, t) : t \in {"/start", "report", "hello"}}
    \cup {CallbackQuery(u, "Discord Items")}

\* the number of rows the report table may reach in SpecSnapshot
SnapshotMaxReports == 2

Started(u) == TextMessage(u, "/start") \in completed

DeliverSnapshot(u, update) ==
    LET Run(w) == route_update(w, update)
    IN /\ Started(u) \/ update = TextMessage(u, "/start")
       /\ Handle(Run, "run", update, SnapshotMaxReports)
       /\ completed' = IF update = TextMessage(u, "/start")
                       THEN completed \cup {update}
                       ELSE completed
       /\ UNCHANGED <<flow, driver, host>>

NextSnapshot == \E u \in Users : \E update \in SnapshotUpdates(u) : DeliverSnapshot(u, update)

SpecSnapshot == Init /\ [][NextSnapshot]_vars

----------------------------------------------------------------------------
(* The completion step of both bots, specification SpecLost: the updates   *)
(* of one user to the HTTP polling bot and to the runner, and               *)
(* process_description of the HTTP polling bot called with a description.   *)

LostUpdates(u) == FlowUpdates(u)

LostRunnerUpdates(u) ==
    {TextMessage(u, t) : t \in {"/report", "/cancel", "hello"}}
    \cup {CallbackQuery(u, "Other")}

\* the number of rows the report table may reach in SpecLost
LostMaxReports == 1

DeliverLost(update) ==
    LET Run(w) == route_update(w, update)
    IN /\ Handle(Run, "run", update, LostMaxReports)
       /\ UNCHANGED <<flow, completed, driver, host>>

DeliverLostRunner(update) ==
    LET Run(w) == process_update(w, update)
    IN /\ Handle(Run, "process_update", update, LostMaxReports)
       /\ UNCHANGED <<flow, completed, driver, host>>

\* TelegramBot.process_description(chat_id, user_id, description)
CompleteDirect(u, description) ==
    LET Run(w) == process_description(w, u, u, description)
    IN /\ Handle(Run, "process_description", TextMessage(u, description), LostMaxReports)
       /\ UNCHANGED <<flow, completed, driver, host>>

NextLost ==
    \/ \E update \in LostUpdates(2) : DeliverLost(update)
    \/ \E update \in LostRunnerUpdates(2) : DeliverLostRunner(update)
    \/ CompleteDirect(2, "hello")

SpecLost == Init /\ [][NextLost]_vars

----------------------------------------------------------------------------
(* The admin commands, specification SpecAdmin.  User 1 is the admin, the    *)
(* report flow of both users goes on meanwhile.                            *)

Admins == {1}

AdminUpdates(u) == {TextMessage(u, t) : t \in AdminTexts}

PhotoResponses(u) ==
    {CaptionedPhotoMessage(u, c) : c \in PhotoCaptions} \cup {PhotoMessage(u)}

\* the number of rows the report table may reach in SpecAdmin
AdminMaxReports == 1

DeliverAdmin(update) ==
    LET Run(w) == route_update(w, update)
    IN /\ Handle(Run, "run", update, AdminMaxReports)
       /\ UNCHANGED <<flow, completed, driver, host>>

\* cmd_respond called with a photo update, the caption as its text
RespondWithPhoto(u, update) ==
    LET Run(w) == cmd_respond(w, u, u, Get(update.message, "caption", ""), update)
    IN /\ Handle(Run, "cmd_respond", update, AdminMaxReports)
       /\ UNCHANGED <<flow, completed, driver, host>>

NextAdmin ==
    \/ \E u \in Admins : \E update \in AdminUpdates(u) : DeliverAdmin(update)
    \/ \E u \in Users : \E update \in FlowUpdates(u) : DeliverAdmin(update)
    \/ \E u \in Admins : \E update \in PhotoResponses(u) : RespondWithPhoto(u, update)
    \/ \E u \in Admins : DeliverAdmin(CaptionedPhotoMessage(u, "/respond 2 hi  there "))

SpecAdmin == Init /\ [][NextAdmin]_vars

\* the response to target user "2" was requested, and the request succeeded
Dispatched(requests) ==
    \E i \in 1..Len(requests) :
        /\ requests[i].chat_id = "2"
        /\ Template(requests[i]) = "admin_response_user"
        /\ requests[i].ok

\* C37 (as claimed): after the text "/respond <target> <remainder>" the admin
\* is sent the acknowledgement only if the response reached the target user,
\* and a failure notice if it did not.
C37_AckOnlyAfterDispatch ==
    \A u \in Admins :
        Handled(TextMessage(u, "/respond 2 hi  there "))
        => /\ Told(sent, u, "respond_ok") => Dispatched(sent)
           /\ ~Dispatched(sent) => Told(sent, u, "respond_failed")

----------------------------------------------------------------------------
(* The synchronous runner, specification SpecRunner *)

RunnerTexts == {"/start", "/help", "/report", "/cancel", "hello"}

RunnerButtons == {"Delivery Issue", "Other", "Bogus"}

RunnerUpdates(u) ==
    {TextMessage(u, t) : t \in RunnerTexts} \cup {CallbackQuery(u, d) : d \in RunnerButtons}

\* the number of rows the report table may reach in SpecRunner
RunnerMaxReports == 1

\* the body of the for loop of TelegramBot.run of the runner
DeliverRunner(update) ==
    LET Run(w) == process_update(w, update)
    IN /\ Handle(Run, "process_update", update, RunnerMaxReports)
       /\ UNCHANGED <<flow, completed, driver, host>>

NextRunner == \E u \in Users : \E update \in RunnerUpdates(u) : DeliverRunner(update)

SpecRunner == Init /\ [][NextRunner]_vars

----------------------------------------------------------------------------
(* The texts and category buttons of one user, specification SpecCommands. *)
(* flow[u] keeps what the update found: the state of the session in stage,  *)
(* its draft category ("" for none) in category.                            *)

\* the texts process_command takes for a command, and two it does not
CommandTexts == UserTexts \cup {"/respond 2 hi  there ", "/debug_channel -1002544234044"}

CommandUpdates(u) ==
    {TextMessage(u, t) : t \in CommandTexts}
    \cup {CallbackQuery(u, CATEGORIES[i]) : i \in 1..Len(CATEGORIES)}

\* the number of rows the report table may reach in SpecCommands
CommandMaxReports == 1

\* the session the update of u is about to meet
Found(u) ==
    [NoFlow EXCEPT !.stage = StateOf(user_states, u),
                   !.category = Get(Get(user_states, u, EmptyDict), "category", "")]

DeliverCommand(u, update) ==
    LET Run(w) == route_update(w, update)
    IN /\ Handle(Run, "run", update, CommandMaxReports)
       /\ flow' = [flow EXCEPT ![u] = Found(u)]
       /\ UNCHANGED <<completed, driver, host>>

NextCommands == \E update \in CommandUpdates(1) : DeliverCommand(1, update)

SpecCommands == Init /\ [][NextCommands]_vars

----------------------------------------------------------------------------
(* The polling loops: TelegramBot.run of the HTTP polling bot,             *)
(* specification SpecPoll, and of both bots under fair scheduling,          *)
(* specification SpecLoops.                                                *)

\* what the handlers act on and what observes them
program == <<user_states, reports, runner_states, runner_data, ev, entry, sent, save,
             raised>>

\* a message whose "chat" is null
NullChatMessage(u) == [message |-> [chat |-> None, from |-> From(u), text |-> "hello"]]

\* the updates that arrive for a bot
ArrivingUpdates(bot) ==
    IF bot = "api" THEN {TextMessage(1, "/start"), NullChatMessage(1)}
    ELSE IF bot = "runner"
    THEN {TextMessage(1, t) : t \in {"/start", "/report", "hello"}}
         \cup {CallbackQuery(1, "Delivery Issue")}
    ELSE {}

\* the number of updates that arrive
MaxEvents == 3

\* run_bot() / main(): bot.run() is called
StartBot(bot) ==
    /\ pc.at = "off"
    /\ pc' = [bot |-> bot, at |-> "fetch", err |-> "none"]
    /\ UNCHANGED <<host, program, flow, completed, offset, last_update_id, telegram, batch, handed>>

\* a user sends update to the bot; its update_id is the next one
Arrive(update) ==
    /\ update \in ArrivingUpdates(pc.bot)
    /\ Len(telegram.updates) < MaxEvents
    /\ telegram' = [telegram EXCEPT !.updates = Append(@, update)]
    /\ UNCHANGED <<host, program, flow, completed, offset, last_update_id, batch, pc, handed>>

\* getUpdates(offset=o) confirms the updates below o ...
Confirmed(o) == IF o - 1 > telegram.confirmed THEN o - 1 ELSE telegram.confirmed

\* ... and returns the unconfirmed ones, in order
Held(o) ==
    LET first == Confirmed(o) + 1
    IN [i \in 1..(Len(telegram.updates) - first + 1) |->
           [update_id |-> first + i - 1, update |-> telegram.updates[first + i - 1]]]

NextOffset_SameAsLast(updates) == updates[Len(updates)].update_id

\* updates[-1]["update_id"] + 1
NextOffset(updates) == updates[Len(updates)].update_id + 1

AfterError_Terminates == "dead"

\* where run() is after "except Exception": at the sleep of the handler
AfterError == "backoff"

\* TelegramBot.get_updates of the HTTP polling bot: the request fails and the
\* result is [], or it succeeds and the cursor moves past the last update
get_updates ==
    /\ pc.bot = "api" /\ pc.at = "fetch"
    /\ \E ok \in BOOLEAN :
          IF ok
          THEN LET updates == Held(offset)
               IN /\ telegram' = [telegram EXCEPT !.confirmed = Confirmed(offset)]
                  /\ offset' = IF updates # <<>> THEN NextOffset(updates) ELSE offset
                  /\ batch' = updates
                  /\ pc' = [pc EXCEPT !.at = "loop", !.err = "none"]
          ELSE /\ batch' = <<>>
               /\ pc' = [pc EXCEPT !.at = "loop", !.err = "fetch"]
               /\ UNCHANGED <<telegram, offset>>
    /\ UNCHANGED <<host, program, flow, completed, last_update_id, handed>>

\* one iteration of the for loop of run(): an exception leaves the loop for
\* the except clause
ProcessNext ==
    /\ pc.bot = "api" /\ pc.at = "loop" /\ batch # <<>>
    /\ LET update == Head(batch).update
           Run(w) == route_update(w, update)
       IN Handle(Run, "run", update, MaxReports)
    /\ handed' = Append(handed, Head(batch).update_id)
    /\ IF raised'
       THEN /\ batch' = <<>>
            /\ pc' = [pc EXCEPT !.at = AfterError, !.err = "process"]
       ELSE /\ batch' = Tail(batch)
            /\ UNCHANGED pc
    /\ UNCHANGED <<host, flow, completed, offset, last_update_id, telegram>>

\* time.sleep(1) after the for loop
Sleep ==
    /\ pc.at = "loop" /\ batch = <<>>
    /\ pc' = [pc EXCEPT !.at = "fetch"]
    /\ UNCHANGED <<host, program, flow, completed, offset, last_update_id, telegram, batch, handed>>

\* time.sleep(10) / time.sleep(5) of the except clause
Backoff ==
    /\ pc.at = "backoff"
    /\ pc' = [pc EXCEPT !.at = "fetch"]
    /\ UNCHANGED <<host, program, flow, completed, offset, last_update_id, telegram, batch, handed>>

\* self.bot.get_updates(offset=self.last_update_id + 1) of the runner: a
\* failed request raises
runner_get_updates ==
    /\ pc.bot = "runner" /\ pc.at = "fetch"
    /\ \E ok \in BOOLEAN :
          IF ok
          THEN /\ telegram' = [telegram EXCEPT !.confirmed = Confirmed(last_update_id + 1)]
               /\ batch' = Held(last_update_id + 1)
               /\ pc' = [pc EXCEPT !.at = "loop", !.err = "none"]
          ELSE /\ batch' = <<>>
               /\ pc' = [pc EXCEPT !.at = AfterError, !.err = "fetch"]
               /\ UNCHANGED telegram
    /\ UNCHANGED <<host, program, flow, completed, offset, last_update_id, handed>>

\* the number of rows the report table may reach under the runner's loop
RetryMaxReports == 2

\* one iteration of the for loop of the runner's run()
RunnerProcessNext ==
    /\ pc.bot = "runner" /\ pc.at = "loop" /\ batch # <<>>
    /\ LET update == Head(batch).update
           Run(w) == process_update(w, update)
       IN Handle(Run, "process_update", update, RetryMaxReports)
    /\ IF raised'
       THEN /\ batch' = <<>>
            /\ pc' = [pc EXCEPT !.at = AfterError, !.err = "process"]
            /\ UNCHANGED last_update_id
       ELSE /\ batch' = Tail(batch)
            /\ last_update_id' = Head(batch).update_id
            /\ UNCHANGED pc
    /\ UNCHANGED <<host, flow, completed, offset, telegram, handed>>

NextPoll ==
    \/ StartBot("api")
    \/ \E update \in ArrivingUpdates("api") : Arrive(update)
    \/ get_updates
    \/ ProcessNext
    \/ Sleep
    \/ Backoff

SpecPoll == Init /\ [][NextPoll]_vars

\* the steps of a bot's thread
LoopStep ==
    \/ \E bot \in {"api", "runner"} : StartBot(bot)
    \/ get_updates
    \/ ProcessNext
    \/ runner_get_updates
    \/ RunnerProcessNext
    \/ Sleep
    \/ Backoff

NextLoops ==
    \/ LoopStep
    \/ \E update \in ArrivingUpdates("api") : Arrive(update)

\* the thread of run() is scheduled again and again
SpecLoops == Init /\ [][NextLoops]_vars /\ WF_vars(LoopStep)

\* the runner's loop with a conversation arriving, specification SpecRetry
NextRetry ==
    \/ StartBot("runner")
    \/ \E update \in ArrivingUpdates("runner") : Arrive(update)
    \/ runner_get_updates
    \/ RunnerProcessNext
    \/ Sleep
    \/ Backoff

SpecRetry == Init /\ [][NextRetry]_vars

----------------------------------------------------------------------------
(* The web application (app.py) and the bot process it starts, on the one  *)
(* report table, specification SpecHost.                                   *)

\* values of the status column the staff sets (models.py), any string being
\* accepted
Statuses == {"Pending", "In Progress", "Resolved"}

\* request.json of a status update: with and without the key "status"
Bodies == {[status |-> st] : st \in Statuses} \cup {EmptyDict}

\* the default account of app.py, and a wrong password
Credentials == {[username |-> "admin", password |-> "admin123"],
                [username |-> "admin", password |-> "guess"]}

\* the number of rows the report table may reach in SpecHost
HostMaxReports == 2

\* the report ids a request names: those of the rows and one beyond
ReportIds == 1..(HostMaxReports + 1)

HostUpdates(u) == {TextMessage(u, "Refund"), TextMessage(u, "hello")}

Disabled_Never(token) == FALSE

\* start_bot: "if not token"
Disabled(token) == ~token

login_required_Open(h) == TRUE

\* login_required: 'admin_id' in session
login_required(h) == h.admin_id # 0

Redirect(location) == [code |-> 302, location |-> location]

\* a step of the web application: no update, no request of the bot
WebStep(name, request) ==
    /\ ev' = <<request>>
    /\ entry' = name
    /\ sent' = <<>>
    /\ save' = "none"
    /\ raised' = FALSE
    /\ UNCHANGED <<user_states, runner_states, runner_data, flow, completed>>

\* the module code of app.py, l.130-138, and bot.start_bot: without the
\* token a warning and return; with it the bot process is started (Popen
\* may fail, which is logged).  The application serves in every case.
start_bot ==
    /\ host.app = "off"
    /\ \E token \in BOOLEAN, popen \in BOOLEAN :
          host' = IF Disabled(token)
                  THEN [host EXCEPT !.app = "serving", !.token = token, !.warned = TRUE]
                  ELSE [host EXCEPT !.app = "serving", !.token = token,
                                    !.process = popen]
    /\ UNCHANGED <<program, flow, completed, driver, reports>>

\* telegram_api_bot.run_bot in the process start_bot started: without the
\* token it returns, with it bot.run() is called
run_bot ==
    /\ host.process /\ pc.at = "off"
    /\ host.token
    /\ pc' = [bot |-> "api", at |-> "fetch", err |-> "none"]
    /\ UNCHANGED <<host, program, flow, completed, offset, last_update_id, telegram,
                   batch, handed>>

\* one update handled by the running bot
DeliverHost(update) ==
    LET Run(w) == route_update(w, update)
    IN /\ pc.at # "off"
       /\ Handle(Run, "run", update, HostMaxReports)
       /\ UNCHANGED <<flow, completed, driver, host>>

\* POST /login: check_password_hash against the hash of the default password
login(form) ==
    /\ host.app = "serving"
    /\ host' = IF form.username = "admin" /\ form.password = "admin123"
               THEN [host EXCEPT !.admin_id = 1, !.response = <<Redirect("dashboard")>>]
               ELSE [host EXCEPT !.response = <<[code |-> 200, page |-> "login"]>>]
    /\ WebStep("login", form)
    /\ UNCHANGED <<reports, driver>>

\* GET /logout
logout ==
    /\ host.app = "serving"
    /\ host' = [host EXCEPT !.admin_id = 0, !.response = <<Redirect("login")>>]
    /\ WebStep("logout", EmptyDict)
    /\ UNCHANGED <<reports, driver>>

\* the rows as get_reports lists them, newest first
Listing(db) == [i \in 1..Len(db) |-> db[Len(db) + 1 - i]]

\* GET /api/reports
get_reports ==
    /\ host.app = "serving"
    /\ host' = IF login_required(host)
               THEN [host EXCEPT !.response = <<[code |-> 200, json |-> Listing(reports)]>>]
               ELSE [host EXCEPT !.response = <<Redirect("login")>>]
    /\ WebStep("get_reports", EmptyDict)
    /\ UNCHANGED <<reports, driver>>

NotFound_Success == [code |-> 200, json |-> [success |-> TRUE]]

\* the response of get_or_404 without the row
NotFound == [code |-> 404]

\* Report.query.get_or_404(report_id) finds a row
Exists(db, report_id) == report_id \in 1..Len(db)

\* PUT /api/reports/<report_id>, up to the row being loaded: redirect without
\* a session, 404 without the row
update_report(report_id, data) ==
    /\ host.app = "serving" /\ host.loaded = <<>>
    /\ host' = IF ~login_required(host)
               THEN [host EXCEPT !.response = <<Redirect("login")>>]
               ELSE IF ~Exists(reports, report_id)
               THEN [host EXCEPT !.response = <<NotFound>>]
               ELSE [host EXCEPT !.loaded = <<[report_id |-> report_id, data |-> data,
                                               row |-> reports[report_id]]>>,
                                 !.seen = Len(reports),
                                 !.response = <<>>]
    /\ WebStep("update_report", [report_id |-> report_id, data |-> data])
    /\ UNCHANGED <<reports, driver>>

SetStatus_ClearsText(db, l) ==
    [db EXCEPT ![l.report_id] = [@ EXCEPT !.status = Get(l.data, "status", @),
                                          !.description = ""]]

SetStatus_OnlyPending(db, l) ==
    IF "status" \in DOMAIN l.data /\ l.row.status = "Pending"
    THEN [db EXCEPT ![l.report_id].status = l.data.status]
    ELSE db

SetStatus_AsLoaded(db, l) ==
    SubSeq([db EXCEPT ![l.report_id].status = Get(l.data, "status", @)], 1, host.seen)

\* "if 'status' in data: report.status = data['status']" and the UPDATE of
\* db.session.commit(): the status column of the row with that id, when the
\* value differs from the one loaded
SetStatus(db, l) ==
    IF "status" \in DOMAIN l.data /\ l.data.status # l.row.status
    THEN [db EXCEPT ![l.report_id].status = l.data.status]
    ELSE db

\* db.session.commit() and the response of update_report
commit ==
    /\ host.app = "serving" /\ host.loaded # <<>>
    /\ reports' = SetStatus(reports, host.loaded[1])
    /\ host' = [host EXCEPT !.loaded = <<>>,
                            !.response = <<[code |-> 200, json |-> [success |-> TRUE]]>>]
    /\ WebStep("commit", host.loaded[1])
    /\ UNCHANGED driver

NextHost ==
    \/ start_bot
    \/ run_bot
    \/ \E update \in HostUpdates(1) : DeliverHost(update)
    \/ \E form \in Credentials : login(form)
    \/ logout
    \/ get_reports
    \/ \E report_id \in ReportIds, data \in Bodies : update_report(report_id, data)
    \/ commit

SpecHost == Init /\ [][NextHost]_vars

----------------------------------------------------------------------------
(* The conversation of the HTTP polling bot, specification Spec *)

\* C3: free text that is no recognized command, received in AwaitingCategory,
\* is no completion: no report is created, nothing goes to the report channel
\* and the session stays in AwaitingCategory.
C3_FreeTextBeforeCategory ==
    [][\A u \in Users, t \in FreeTexts :
          (Handled(TextMessage(u, t))' /\ AwaitingCategory(user_states, u))
          => /\ reports' = reports
             /\ \A i \in 1..Len(sent') : sent'[i].chat_id # CHANNEL_ID
             /\ AwaitingCategory(user_states', u)
             /\ user_states' = user_states]_vars

C3_Witness ==
    /\ Handled(TextMessage(1, "hello"))
    /\ AwaitingCategory(user_states, 1)
    /\ sent = <<>>
    /\ reports = <<>>

\* C4 (as claimed): /cancel received in AwaitingCategory or AwaitingDescription
\* returns the session to Idle and creates no report.
C4_CancelReturnsToIdle ==
    [][\A u \in Users :
          (Handled(TextMessage(u, "/cancel"))' /\ ~Idle(user_states, u))
          => /\ Idle(user_states', u)
             /\ reports' = reports]_vars

\* C5: when the INSERT succeeds and the relay of the report text to the
\* report channel fails, the row is in the table, the submitter is sent the
\* forwarding-failure message and no success confirmation, and the session
\* is Idle.
C5_SavedButNotForwarded ==
    \A update \in Updates :
        (Handled(update) /\ save = "ok" /\ RelayFailed(sent))
        => LET u == Sender(update)
               row == reports[Len(reports)]
           IN /\ reports # <<>>
              /\ row.id = Len(reports) /\ row.user_id = u
              /\ row.description = DescriptionOf(update)
              /\ Told(sent, update.message.chat.id, "forward_failed")
              /\ \A i \in 1..Len(sent) : Template(sent[i]) \notin {"success", "save_failed"}
              /\ user_states[u] = IdleSession

C5_Witness ==
    /\ Handled(TextMessage(1, "hello"))
    /\ save = "ok"
    /\ RelayFailed(sent)
    /\ Len(reports) = 1
    /\ Told(sent, 1, "forward_failed")

\* C6: when the INSERT fails, no row is added, the report text is not sent to
\* the report channel, the submitter is sent the save-failure message and
\* neither the success nor the forwarding-failure message, and the session is
\* Idle.  (The photo of an attachment completion is the subject of C35.)
C6_SaveFailed ==
    [][\A update \in Updates :
          (Handled(update)' /\ save' = "failed")
          => /\ reports' = reports
             /\ ~Relayed(sent')
             /\ Told(sent', update.message.chat.id, "save_failed")
             /\ \A i \in 1..Len(sent') :
                    Template(sent'[i]) \notin {"success", "forward_failed"}
             /\ user_states'[Sender(update)] = IdleSession]_vars

C6_Witness ==
    /\ Handled(TextMessage(1, "hello"))
    /\ save = "failed"
    /\ reports = <<>>
    /\ Told(sent, 1, "save_failed")
    /\ user_states[1] = IdleSession

\* C18: in AwaitingDescription a photo message is a completion, with the
\* caption as description and the empty string when there is no caption: the
\* INSERT is attempted, a successful one appends the row with that
\* description and the drafted category, the session becomes Idle and nothing
\* raises.
C18_PhotoCompletes ==
    [][\A u \in Users :
          \A update \in {PhotoMessage(u)} \cup {CaptionedPhotoMessage(u, c) : c \in Captions} :
              (Handled(update)' /\ AwaitingDescription(user_states, u))
              => /\ ~raised'
                 /\ save' \in {"ok", "failed"}
                 /\ Get(user_states', u, EmptyDict) = IdleSession
                 /\ save' = "failed" => reports' = reports
                 /\ save' = "ok" =>
                        /\ Len(reports') = Len(reports) + 1
                        /\ SubSeq(reports', 1, Len(reports)) = reports
                        /\ reports'[Len(reports')].user_id = u
                        /\ reports'[Len(reports')].category = user_states[u].category
                        /\ reports'[Len(reports')].description
                               = Get(update.message, "caption", "")]_vars

C18_Witness ==
    /\ Handled(PhotoMessage(1))
    /\ save = "ok"
    /\ Len(reports) = 1
    /\ reports[1].description = ""
    /\ reports[1].user_id = 1
    /\ user_states[1] = IdleSession

\* C30: a session in AwaitingDescription has a category, and no request is
\* the lost-track message of process_description.
C30_DraftNeverLost ==
    /\ \A u \in Users :
          AwaitingDescription(user_states, u)
          => "category" \in DOMAIN Get(user_states, u, EmptyDict)
    /\ \A i \in 1..Len(sent) : Template(sent[i]) # "lost_track"

\* after a completed report, a category was selected again
C30_Witness ==
    /\ Handled(CallbackQuery(1, "Discord Items"))
    /\ AwaitingDescription(user_states, 1)
    /\ user_states[1].category = "Discord Items"
    /\ Len(reports) = 1
    /\ reports[1].category = "Refund"

\* C31: the category of every row is a configured category or "Refund"; and
\* the refund command, whatever the session, leaves it in
\* AwaitingDescription with the draft category "Refund" and adds no row.
C31_CategoriesOfReports ==
    /\ [](\A i \in 1..Len(reports) :
             InList(reports[i].category, CATEGORIES) \/ reports[i].category = "Refund")
    /\ [][\A u \in Users :
             Handled(TextMessage(u, "Refund"))'
             => /\ AwaitingDescription(user_states', u)
                /\ Get(Get(user_states', u, EmptyDict), "category", "") = "Refund"
                /\ reports' = reports]_vars

\* after a Premiums report, the refund command has opened a refund draft
C31_Witness ==
    /\ Handled(TextMessage(1, "Refund"))
    /\ AwaitingDescription(user_states, 1)
    /\ user_states[1].category = "Refund"
    /\ Len(reports) = 1
    /\ reports[1].category = "Premiums"

\* C33: a button pressed while the session is not AwaitingCategory (none,
\* Idle, AwaitingDescription) leaves user_states as it was, state and draft
\* category included; the callback query is answered and no message is sent;
\* no INSERT is attempted.
C33_LateButtonIgnored ==
    [][\A u \in Users, d \in ButtonData :
          (Handled(CallbackQuery(u, d))' /\ ~AwaitingCategory(user_states, u))
          => /\ user_states' = user_states
             /\ \A i \in 1..Len(sent') : sent'[i].method = "answerCallbackQuery"
             /\ save' = "none"
             /\ reports' = reports
             /\ ~raised']_vars

\* Premiums was pressed while a Discord Items draft awaited its description
C33_Witness ==
    /\ Handled(CallbackQuery(1, "Premiums"))
    /\ AwaitingDescription(user_states, 1)
    /\ user_states[1].category = "Discord Items"
    /\ Len(sent) = 1
    /\ sent[1].method = "answerCallbackQuery"
    /\ reports = <<>>

\* the attachments user u may send
Attachments(u) == {PhotoMessage(u)} \cup {CaptionedPhotoMessage(u, c) : c \in Captions}

\* C35 (as claimed): when an attachment completes a report and the INSERT
\* failed, no request at all goes to the report channel.
C35_PhotoOnlyAfterSave ==
    [][\A u \in Users : \A update \in Attachments(u) :
          (Handled(update)' /\ AwaitingDescription(user_states, u) /\ save' = "failed")
          => \A i \in 1..Len(sent') : sent'[i].chat_id # CHANNEL_ID]_vars

----------------------------------------------------------------------------
(* The report flow, specification SpecFlow *)

\* C1: from a fresh or Idle session, the updates start-report command,
\* selection of a configured category c, description text d, the INSERT
\* succeeding, create exactly one report of that user, with category c and
\* description d, and leave the session Idle.
C1_FlowCreatesOneReport ==
    \A u \in Users :
        flow[u].stage = 3
        => LET mine == RowsOf(u, reports)
               last == CHOOSE i \in mine : \A j \in mine : j <= i
           IN /\ Cardinality(mine) = flow[u].base + 1
              /\ reports[last].category = flow[u].category
              /\ reports[last].description = flow[u].description
              /\ reports[last].id = last
              /\ reports[last].status = "Pending"
              /\ user_states[u] = IdleSession

C1_Witness ==
    /\ flow[2].stage = 3
    /\ flow[2].category = "Premiums"
    /\ Len(reports) = 2
    /\ reports[1].user_id = 1
    /\ reports[2] = [id |-> 2, user_id |-> 2, username |-> "user_2",
                     category |-> "Premiums", description |-> "hello",
                     status |-> "Pending"]
    /\ user_states[2] = IdleSession

\* C7: handling a description update that process_description has already
\* been run on leaves every session well formed, adds at most one row to the
\* rows already there, and raises nothing.
C7_Redelivery ==
    [][\A update \in completed :
          Handled(update)'
          => /\ WellFormed(user_states')
             /\ Len(reports') <= Len(reports) + 1
             /\ SubSeq(reports', 1, Len(reports)) = reports
             /\ ~raised']_vars

\* the second delivery of the same description update made a duplicate row
C7_Witness ==
    /\ Handled(TextMessage(1, "hello"))
    /\ TextMessage(1, "hello") \in completed
    /\ Len(reports) = 2
    /\ reports[1].user_id = 1 /\ reports[1].description = "hello"
    /\ reports[2].user_id = 1 /\ reports[2].description = "hello"
    /\ Idle(user_states, 1)
    /\ ~raised

\* the display name the policy of C17 gives a sender: the handle, else first
\* and last name trimmed, else the synthetic name
ResolvedName(user) ==
    IF "username" \in DOMAIN user THEN user.username
    ELSE IF "first_name" \in DOMAIN user \/ "last_name" \in DOMAIN user
    THEN DisplayNameOf[user.id]
    ELSE SyntheticNameOf[user.id]

\* C17 (as claimed): every row carries the display name the policy gives its
\* sender.
C17_DisplayNamePolicy ==
    \A i \in 1..Len(reports) :
        reports[i].username = ResolvedName(From(reports[i].user_id))

----------------------------------------------------------------------------
(* The admin commands, specification SpecAdmin *)

\* the remainder of "/respond 2 hi  there " after its first two tokens
Remainder == "hi  there "

\* C8: a /respond text of fewer than three whitespace-separated tokens gets
\* the usage reply, to the sender, and nothing else: no request to a target
\* user or to the audit channel, no session and no report changed.
C8_MalformedRespond ==
    [][\A u \in Admins, t \in AdminTexts :
          (Handled(TextMessage(u, t))' /\ StartsWith(t, "/respond") /\ Len(Split(t, -1)) < 3)
          => /\ Len(sent') = 1
             /\ sent'[1].method = "sendMessage"
             /\ sent'[1].chat_id = Str(u)
             /\ Template(sent'[1]) = "respond_usage"
             /\ user_states' = user_states
             /\ reports' = reports]_vars

C8_Witness ==
    /\ Handled(TextMessage(1, "/respond 2"))
    /\ Len(sent) = 1
    /\ Template(sent[1]) = "respond_usage"
    /\ AwaitingDescription(user_states, 2)
    /\ Len(reports) = 1

\* C9: the text "/respond <target> <remainder>" makes exactly three requests,
\* in this order: the response to the target user, the response to the audit
\* channel, both carrying the unsplit remainder, and the acknowledgement to
\* the admin.
C9_WellFormedRespond ==
    \A u \in Admins :
        Handled(TextMessage(u, "/respond 2 hi  there "))
        => /\ Len(sent) = 3
           /\ \A i \in 1..3 : sent[i].method = "sendMessage"
           /\ sent[1].chat_id = "2"
           /\ sent[1].text = [template |-> "admin_response_user",
                              response_text |-> Remainder]
           /\ sent[2].chat_id = RESPONSE_CHANNEL_ID
           /\ sent[2].text = [template |-> "admin_response_channel",
                              target_user_id |-> "2", response_text |-> Remainder]
           /\ sent[3].chat_id = Str(u)
           /\ sent[3].text = [template |-> "respond_ok"]

C9_Witness ==
    /\ Handled(TextMessage(1, "/respond 2 hi  there "))
    /\ Len(sent) = 3
    /\ sent[1].chat_id = "2" /\ sent[1].text.response_text = "hi  there "
    /\ sent[2].chat_id = RESPONSE_CHANNEL_ID /\ sent[2].text.response_text = "hi  there "
    /\ sent[3].chat_id = "1"
    /\ \A i \in 1..3 : sent[i].ok

\* C10 (as claimed): a well-formed response, the text handled by run() or the
\* photo passed to cmd_respond, makes a request to the target user and a
\* request to the audit channel, whichever of them fails.
C10_DispatchesIndependent ==
    \A u \in Admins :
        \A update \in {TextMessage(u, "/respond 2 hi  there "),
                       CaptionedPhotoMessage(u, "/respond 2 hi  there ")} :
            (ev = <<update>> /\ ("photo" \in DOMAIN update.message => entry = "cmd_respond"))
            => /\ \E i \in 1..Len(sent) : sent[i].chat_id = "2"
               /\ \E i \in 1..Len(sent) : sent[i].chat_id = RESPONSE_CHANNEL_ID

\* C11 (as claimed): a photo whose caption is "/respond <target> <remainder>",
\* handled by run(), is passed to cmd_respond: the photo goes to the target
\* user and then to the audit channel, both with the remainder.
C11_PhotoResponseRouted ==
    \A u \in Admins :
        Handled(CaptionedPhotoMessage(u, "/respond 2 hi  there "))
        => /\ Len(sent) >= 2
           /\ sent[1].method = "sendPhoto" /\ sent[1].chat_id = "2"
           /\ sent[1].text.caption.response_text = Remainder
           /\ sent[2].method = "sendPhoto" /\ sent[2].chat_id = RESPONSE_CHANNEL_ID
           /\ sent[2].text.caption.response_text = Remainder

\* the chats that are channels
Channels == {CHANNEL_ID, RESPONSE_CHANNEL_ID}

\* the updates of u that are no completion in the current state: the report
\* command, the debug command, a button, and free text unless a description
\* is awaited
NonCompletions(u) ==
    {TextMessage(u, t) : t \in {"report", "/debug_channel -1002544234044", "/debug_channel"}}
    \cup {CallbackQuery(u, CATEGORIES[i]) : i \in 1..Len(CATEGORIES)}
    \cup (IF AwaitingDescription(user_states, u) THEN {} ELSE {TextMessage(u, "hello")})

\* C20 (as claimed): an update that is no completion inserts no report and
\* sends nothing to a channel.
C20_OnlyCompletionReachesChannel ==
    [][\A u \in Users : \A update \in NonCompletions(u) :
          Handled(update)'
          => /\ reports' = reports
             /\ \A i \in 1..Len(sent') : sent'[i].chat_id \notin Channels]_vars

\* C32: an update of one user (a text, a photo, a button, an admin command)
\* leaves every other user's entry of user_states as it was, absent or
\* present with the same dict.
C32_SessionsIsolated ==
    [][\A a, b \in Users :
          (ev' # <<>> /\ Sender(ev'[1]) = a /\ b # a)
          => /\ (b \in DOMAIN user_states') = (b \in DOMAIN user_states)
             /\ Get(user_states', b, EmptyDict) = Get(user_states, b, EmptyDict)]_vars

\* user 1 restarted a report while user 2 holds a Premiums draft
C32_Witness ==
    /\ Handled(TextMessage(1, "report"))
    /\ AwaitingCategory(user_states, 1)
    /\ AwaitingDescription(user_states, 2)
    /\ user_states[2].category = "Premiums"
    /\ Len(reports) = 1
    /\ reports[1].user_id = 1

----------------------------------------------------------------------------
(* The synchronous runner, specification SpecRunner *)

\* C2 (as claimed): a button value outside the configured categories, received
\* while the session awaits a category, leaves the state there, stores no draft
\* category and creates no report.
C2_UnknownCategoryIgnored ==
    [][\A u \in Users, d \in RunnerButtons :
          (/\ ev' = <<CallbackQuery(u, d)>> /\ entry' = "process_update"
           /\ ~InList(d, categories)
           /\ Get(runner_states, u, STATE_INIT) = STATE_CATEGORY)
          => /\ Get(runner_states', u, STATE_INIT) = STATE_CATEGORY
             /\ runner_data' = runner_data
             /\ reports' = reports]_vars

----------------------------------------------------------------------------
(* The scenario of one user, specification SpecScenario *)

\* C16 (as claimed): after /start, report, a configured category and a
\* description, INSERT and relay succeeding, there is exactly one more report
\* of the user, Pending; the user was sent exactly two messages, the category
\* prompt and then the success confirmation; one request went to a channel.
C16_ScenarioMessages ==
    \A u \in Users :
        flow[u].stage = 4
        => LET mine == RowsOf(u, reports)
               toUser == SelectSeq(flow[u].log,
                             LAMBDA r : r.method = "sendMessage" /\ r.chat_id = Str(u))
               toChannel == SelectSeq(flow[u].log, LAMBDA r : r.chat_id \in Channels)
           IN /\ Cardinality(mine) = flow[u].base + 1
              /\ \A i \in mine : reports[i].status = "Pending"
              /\ [i \in 1..Len(toUser) |-> toUser[i].template]
                     = <<"category_prompt", "success">>
              /\ Len(toChannel) = 1

----------------------------------------------------------------------------
(* The completion step of both bots, specification SpecLost *)

\* the session of u in the HTTP polling bot has no category
NoDraft(us, u) == u \notin DOMAIN us \/ "category" \notin DOMAIN us[u]

\* the runner awaits a description of u and has no category for u
RunnerNoDraft(rs, rd, u) ==
    /\ Get(rs, u, STATE_INIT) = STATE_DESCRIPTION
    /\ (u \notin DOMAIN rd \/ "category" \notin DOMAIN rd[u])

\* the requests are the lost-track message to chat_id and nothing else
OnlyLostTrack(requests, chat_id) ==
    /\ Len(requests) = 1
    /\ requests[1].method = "sendMessage"
    /\ requests[1].chat_id = Str(chat_id)
    /\ Template(requests[1]) = "lost_track"

----------------------------------------------------------------------------
(* The polling loop of the HTTP polling bot, specification SpecPoll *)

\* the update_ids of a list of updates
IdsOf(updates) == {updates[i].update_id : i \in 1..Len(updates)}

\* the update_ids run() of the HTTP polling bot passed to processing so far
Handed == {handed[i] : i \in 1..Len(handed)}

\* C12 (as claimed): the cursor is past an update only when the update has
\* been passed to processing.
C12_CursorAfterHandOff ==
    \A id \in 1..Len(telegram.updates) : id < offset => id \in Handed

\* C13 (as claimed): an update the cursor is past has been passed to
\* processing or is still in the list the for loop iterates: none is skipped.
C13_NoEventSkipped ==
    \A id \in 1..Len(telegram.updates) :
        id < offset => id \in Handed \cup IdsOf(batch)

\* C14: the cursor never decreases, and no update_id is passed to processing
\* twice.
C14_MonotonicCursor ==
    [][/\ offset' >= offset
       /\ \A i, j \in 1..Len(handed') : handed'[i] = handed'[j] => i = j]_vars

\* three updates fetched in two batches, each processed once
C14_Witness ==
    /\ pc.bot = "api"
    /\ offset = 4
    /\ telegram.confirmed = 2
    /\ handed = <<1, 2, 3>>

----------------------------------------------------------------------------
(* The polling loops of both bots, specification SpecLoops *)

\* C15: after an error of a fetch or of the processing of a batch, run() is
\* again at the call of get_updates: no error ends the loop.
C15_LoopGoesOn == (pc.err # "none") ~> (pc.at = "fetch")

\* the runner's processing raised, the loop backed off and is at the fetch
C15_Witness ==
    /\ pc = [bot |-> "runner", at |-> "fetch", err |-> "process"]
    /\ Len(telegram.updates) = 1
    /\ last_update_id = 0

----------------------------------------------------------------------------
(* Commands in every session state, specification SpecCommands *)

\* the requests are one category prompt to chat_id, with one button per
\* configured category, in order
OnlyCategoryPrompt(requests, chat_id) ==
    /\ Len(requests) = 1
    /\ requests[1].method = "sendMessage"
    /\ requests[1].chat_id = Str(chat_id)
    /\ Template(requests[1]) = "category_prompt"
    /\ requests[1].text.inline_keyboard = CATEGORIES

\* C21: the start-report command, whatever the session (none, Idle,
\* AwaitingCategory, AwaitingDescription with its draft), makes one request,
\* the category prompt with one button per configured category, leaves the
\* session in AwaitingCategory without a draft category, and adds no row.
C21_RestartFromAnyState ==
    [][\A u \in Users :
          Handled(TextMessage(u, "report"))'
          => /\ OnlyCategoryPrompt(sent', u)
             /\ AwaitingCategory(user_states', u)
             /\ NoDraft(user_states', u)
             /\ reports' = reports
             /\ save' = "none"
             /\ ~raised']_vars

\* the command met an AwaitingDescription session drafting a refund
C21_Witness ==
    /\ Handled(TextMessage(1, "report"))
    /\ flow[1].stage = STATE_AWAITING_DESCRIPTION
    /\ flow[1].category = "Refund"
    /\ OnlyCategoryPrompt(sent, 1)
    /\ AwaitingCategory(user_states, 1)
    /\ NoDraft(user_states, 1)
    /\ reports = <<>>

\* the command texts of SpecCommands with the template of the first request
\* of their handler
FirstRequestOf ==
    [t \in CommandTexts \ FreeTexts |->
        IF t = "/start" THEN "welcome"
        ELSE IF t = "report" THEN "category_prompt"
        ELSE IF t = "Refund" THEN "refund_form"
        ELSE IF t = "/respond 2 hi  there " THEN "admin_response_user"
        ELSE "debug_info"]

\* C29: in AwaitingDescription a command text goes to the handler of the
\* command, which begins with the request of that command, and no INSERT is
\* attempted; any other text is a completion: the INSERT is attempted, and a
\* successful one appends the row with the text as description and the
\* drafted category.
C29_CommandsFirst ==
    [][\A u \in Users :
          AwaitingDescription(user_states, u)
          => /\ \A t \in DOMAIN FirstRequestOf :
                   Handled(TextMessage(u, t))'
                   => /\ save' = "none"
                      /\ reports' = reports
                      /\ sent' # <<>>
                      /\ Template(sent'[1]) = FirstRequestOf[t]
             /\ \A t \in FreeTexts :
                   Handled(TextMessage(u, t))'
                   => /\ save' \in {"ok", "failed"}
                      /\ save' = "ok"
                         => /\ Len(reports') = Len(reports) + 1
                            /\ reports'[Len(reports')].description = t
                            /\ reports'[Len(reports')].category
                                   = Get(Get(user_states, u, EmptyDict), "category", "")]_vars

\* /start met an AwaitingDescription session drafting a Premiums report
C29_Witness ==
    /\ Handled(TextMessage(1, "/start"))
    /\ flow[1].stage = STATE_AWAITING_DESCRIPTION
    /\ flow[1].category = "Premiums"
    /\ Idle(user_states, 1)
    /\ Len(sent) = 1 /\ Template(sent[1]) = "welcome"
    /\ reports = <<>>

----------------------------------------------------------------------------
(* The report table under the bot and the web application, specification   *)
(* SpecHost                                                                *)

C23_AppendOnly ==
    [][\A i \in 1..Len(reports) :
          /\ i <= Len(reports')
          /\ reports'[i].user_id = reports[i].user_id
          /\ reports'[i].username = reports[i].username
          /\ reports'[i].category = reports[i].category
          /\ reports'[i].description = reports[i].description
          /\ reports'[i].status # reports[i].status => entry' = "commit"]_vars

\* the staff has just set the first of two rows to In Progress
C23_Witness ==
    /\ entry = "commit"
    /\ Len(reports) = 2
    /\ reports[1] = [id |-> 1, user_id |-> 1, username |-> "user_1", category |-> "Refund",
                     description |-> "hello", status |-> "In Progress"]
    /\ reports[2].status = "Pending"

\* the ids of the rows
IdsIn(db) == {db[i].id : i \in 1..Len(db)}

\* C24: a status update by a logged-in session for an id no row has is
\* answered 404, and leaves the table as it was, with no update in progress.
C24_UnknownReport ==
    [][(/\ entry' = "update_report"
        /\ host.admin_id # 0
        /\ ev'[1].report_id \notin IdsIn(reports))
       => /\ host'.response = <<[code |-> 404]>>
          /\ host'.loaded = <<>>
          /\ reports' = reports]_vars

\* id 3 was asked for while the table has two rows
C24_Witness ==
    /\ entry = "update_report"
    /\ ev = <<[report_id |-> 3, data |-> [status |-> "Resolved"]]>>
    /\ host.admin_id = 1
    /\ Len(reports) = 2
    /\ host.response = <<[code |-> 404]>>

\* C25: a status update by a logged-in session for the id of a row is carried
\* out whatever the status of the row and the status asked for: the commit
\* leaves that row with the status asked for and otherwise as it was, leaves
\* every other row as it was, and the answer is success.
C25_AnyToAny ==
    [][/\ (/\ entry' = "update_report"
           /\ host.admin_id # 0
           /\ ev'[1].report_id \in IdsIn(reports))
          => host'.loaded = <<[report_id |-> ev'[1].report_id, data |-> ev'[1].data,
                               row |-> reports[ev'[1].report_id]]>>
       /\ (entry' = "commit" /\ "status" \in DOMAIN ev'[1].data)
          => /\ host'.response = <<[code |-> 200, json |-> [success |-> TRUE]]>>
             /\ Len(reports') = Len(reports)
             /\ \A i \in 1..Len(reports) :
                   reports'[i] = IF i = ev'[1].report_id
                                 THEN [reports[i] EXCEPT !.status = ev'[1].data.status]
                                 ELSE reports[i]]_vars

\* the second of two rows went from Resolved back to Pending
C25_Witness ==
    /\ entry = "commit"
    /\ Len(ev) = 1
    /\ ev[1].report_id = 2
    /\ ev[1].row.status = "Resolved"
    /\ ev[1].data = [status |-> "Pending"]
    /\ Len(reports) = 2
    /\ reports[2].status = "Pending"
    /\ reports[1].status = "In Progress"

C27_StaffOnly ==
    [][(entry' \in {"get_reports", "update_report"} /\ host.admin_id = 0)
       => /\ host'.response = <<[code |-> 302, location |-> "login"]>>
          /\ host'.loaded = host.loaded
          /\ reports' = reports]_vars

\* a status update of the one row was asked for after a failed login
C27_Witness ==
    /\ entry = "update_report"
    /\ ev = <<[report_id |-> 1, data |-> [status |-> "Resolved"]]>>
    /\ host.admin_id = 0
    /\ host.response = <<[code |-> 302, location |-> "login"]>>
    /\ Len(reports) = 1
    /\ reports[1].status = "Pending"

\* C28: when TELEGRAM_BOT_TOKEN is not set, the startup of the application
\* ends with the warning logged, no bot process started and the application
\* serving; and from then on no bot process exists, run() is never entered
\* and no update is handled.
C28_NoTokenNoBot ==
    /\ [][(host.app = "off" /\ host'.app # "off" /\ ~host'.token)
          => /\ host'.app = "serving"
             /\ host'.warned
             /\ ~host'.process]_vars
    /\ [](~host.token => /\ ~host.process
                         /\ pc.at = "off"
                         /\ entry # "run"
                         /\ user_states = EmptyDict
                         /\ reports = <<>>)

\* without the token, the application has served a login and the report list
C28_Witness ==
    /\ host.app = "serving"
    /\ ~host.token
    /\ host.warned
    /\ ~host.process
    /\ pc.at = "off"
    /\ entry = "get_reports"
    /\ host.admin_id = 1
    /\ host.response = <<[code |-> 200, json |-> <<>>]>>

----------------------------------------------------------------------------
(* Conversations that open with /start, specification SpecSnapshot *)

\* the snapshot of the originating update in u's session, <<>> if none
SnapshotOf(us, u) == Get(Get(us, u, EmptyDict), "message_data", EmptyDict)

\* C34 (as claimed): a snapshot stored in a session stays in it, unchanged,
\* through every later update, and all rows a user files after their /start
\* carry the same display name.
C34_SnapshotKept ==
    /\ [][\A u \in Users :
             SnapshotOf(user_states, u) # EmptyDict
             => SnapshotOf(user_states', u) = SnapshotOf(user_states, u)]_vars
    /\ [](\A i, j \in 1..Len(reports) :
             reports[i].user_id = reports[j].user_id
             => reports[i].username = reports[j].username)

----------------------------------------------------------------------------
(* The runner's loop with a conversation arriving, specification SpecRetry *)

\* the description texts that have arrived for the runner
DescriptionEvents ==
    {i \in 1..Len(telegram.updates) : telegram.updates[i] = TextMessage(1, "hello")}

\* C36 (as claimed): the report table never holds more rows than description
\* events have arrived, whatever requests fail and whatever the loop retries.
C36_OneRowPerDescription ==
    Len(reports) <= Cardinality(DescriptionEvents)

====
